---- MODULE Spec2Model ----
(***************************************************************************)
(* Model of src/main.rs of sensor-client-benchmark: a mock gRPC ingest     *)
(* service (MockSensorService::stream_data) that tallies metrics into a    *)
(* shared AtomicU64, a throughput reporter task, an input generator thread *)
(* that floods a Unix socket with alert records, and main, which wires     *)
(* them together and waits for ctrl-c.                                     *)
(*                                                                         *)
(* Time is in milliseconds.  The clock advances only while the generator   *)
(* thread is inside std::thread::sleep (its other statements take no       *)
(* time), in steps of Quantum ms.  A sleep of d ms ends no earlier than    *)
(* d ms after it began and at most MaxJitter quanta later.                 *)
(***************************************************************************)
EXTENDS Integers, Sequences, FiniteSets, TLC

(* ------------------------------ bounds ------------------------------- *)

\* number of stream_data calls the model follows
NumSessions == 2
\* number of samples the reporter takes in the model
MaxSamples == 2

\* largest --rate the model runs the generator with
MaxRate == 2
\* number of iterations of the emission loop the model follows
MaxIter == 10
\* the model's clock stops at MaxTime ms
MaxTime == 3000
\* a sleep ends at most MaxJitter quanta after its duration has passed
MaxJitter == 1
\* number of times the endpoint goes away or drops the connection
MaxOutages == 1
\* flow_id_counter is a u64 and wraps at 2^64; the model wraps it at
\* IdModulus so that the wrap is within reach of MaxIter iterations
IdModulus == 8

Sessions == 1..NumSessions
Rates == 0..MaxRate

(* ------------------------- program constants -------------------------- *)

PollIntervalMs == 500       \* Duration::from_millis(500), existence poll
ConnectRetryMs == 500       \* Duration::from_millis(500), connect retry
FailSleepMs == 100          \* Duration::from_millis(100), failed reconnect
WindowMs == 1000            \* Duration::from_secs(1), the pacing window
NanosPerSec == 1000000000   \* 1_000_000_000 in sleep_ns
NanosPerMilli == 1000000    \* Duration::from_nanos on the model's ms clock

\* the clock's step: the shortest sleep of the program
Quantum == FailSleepMs

\* The inbound streams a client may send: the sequence of len(event.metrics)
\* of its events, in order.
Scripts == {<< >>, <<2>>, <<1, 2, 3>>, <<4, 5>>}

RECURSIVE SumSeq(_)
SumSeq(s) == IF s = << >> THEN 0 ELSE s[1] + SumSeq(Tail(s))

Prefix(s, n) == SubSeq(s, 1, n)

(* ------------------------------ state -------------------------------- *)

VARIABLES
    proc,       \* the process: "running", "exit_ok", "exit_err"
    mainPc,     \* position of main: "start", "server_spawned",
                \* "reporter_spawned", "wait_ctrl_c", "returned"
    server,     \* the task serving gRPC: "none", "spawned", "serving", "panicked"
    counter,    \* MockSensorService.counter, the shared AtomicU64
    session,    \* session[s]: one stream_data call: [pc, inbound, pos, count,
                \* read], read being what the last stream.message() gave
    reporter,   \* the stats reporter task: [pc, last_count]
    reports,    \* the rates the reporter has logged, in order
    rate,       \* Args.rate
    gen,        \* the generator thread: [pc, flow_id_counter, count, start,
                \* stream, wake]
    now,        \* the clock, ms since the process started
    endpoint,   \* the socket the generator targets: [up, open, conns]
    writes,     \* the write_all calls of the emission loop so far:
                \* [rendered, last, delivered]
    obs,        \* what an observer noted: [createdAt, firstWriteAt, outages,
                \* alignSleeps]
    limits      \* how far the run is followed: [iters, time, samples,
                \* sessions, scripts]

ingestVars == <<counter, session, reporter, reports>>
mainVars == <<proc, mainPc, server>>
genVars == <<rate, gen, now, endpoint, writes, obs, limits>>
vars == <<proc, mainPc, server, counter, session, reporter, reports,
          rate, gen, now, endpoint, writes, obs, limits>>

Running == proc = "running"

IdleSession == [pc |-> "idle", inbound |-> << >>, pos |-> 0, count |-> 0,
                read |-> "none"]

(* --------------------- MockSensorService::stream_data ----------------- *)

\* a handler that adds 1 per event instead of the event's number of metrics
FetchAddOne(c, n) == c + 1

\* a handler that subtracts
FetchSub(c, n) == c - n

\* AtomicU64::fetch_add: one indivisible read-modify-write.  The totals the
\* model reaches stay far below 2^64, where fetch_add would wrap.
FetchAdd(c, n) == c + n

\* a handler that fails the call at the end of the stream
ReturnErrAlways(read) == "err"

\* a handler that acknowledges the call whatever the last read gave
ReturnOkAlways(read) == "ok"

\* What the handler returns when stream.message().await? gives no event:
\* None ends the while loop and the handler returns Ok(Response::new(())),
\* Err(status) is returned by `?`.
ReturnOn(read) == IF read = "eof" THEN "ok" ELSE "err"

\* a service that accepts no stream while the generator sleeps
StreamDataCallGeneratorAwake(s, scr) ==
    /\ Running
    /\ s <= limits.sessions
    /\ scr \in limits.scripts
    /\ server = "serving"
    /\ gen.pc \notin {"poll_sleep", "connect_sleep", "fail_sleep", "align_sleep",
                      "pace_sleep"}
    /\ session[s].pc = "idle"
    /\ session' = [session EXCEPT ![s] =
            [pc |-> "reading", inbound |-> scr, pos |-> 0, count |-> 0,
             read |-> "none"]]
    /\ UNCHANGED <<mainVars, genVars, counter, reporter, reports>>

\* A client opens a stream: the handler takes the inbound stream and sets
\* its local count to 0.
StreamDataCall(s, scr) ==
    /\ Running
    /\ s <= limits.sessions
    /\ scr \in limits.scripts
    /\ server = "serving"
    /\ session[s].pc = "idle"
    /\ session' = [session EXCEPT ![s] =
            [pc |-> "reading", inbound |-> scr, pos |-> 0, count |-> 0,
             read |-> "none"]]
    /\ UNCHANGED <<mainVars, genVars, counter, reporter, reports>>

\* stream.message().await? yields Some(event): count it and add its number
\* of metrics to the shared counter.
StreamEvent(s) ==
    /\ Running
    /\ session[s].pc = "reading"
    /\ session[s].pos < Len(session[s].inbound)
    /\ LET event == session[s].inbound[session[s].pos + 1]
       IN  /\ counter' = FetchAdd(counter, event)
           /\ session' = [session EXCEPT ![s].pos = @ + 1, ![s].count = @ + 1,
                                         ![s].read = "event"]
    /\ UNCHANGED <<mainVars, genVars, reporter, reports>>

\* stream.message().await? yields None: the client closed the stream
\* cleanly; the handler returns Ok(Response::new(())).
StreamEnd(s) ==
    /\ Running
    /\ session[s].pc = "reading"
    /\ session[s].pos = Len(session[s].inbound)
    /\ session' = [session EXCEPT ![s].read = "eof", ![s].pc = ReturnOn("eof")]
    /\ UNCHANGED <<mainVars, genVars, counter, reporter, reports>>

\* a handler that takes back what the session added when its read fails
StreamErrorRollsBack(s) ==
    /\ Running
    /\ session[s].pc = "reading"
    /\ session' = [session EXCEPT ![s].read = "error", ![s].pc = "err"]
    /\ counter' = counter - SumSeq(Prefix(session[s].inbound, session[s].pos))
    /\ UNCHANGED <<mainVars, genVars, reporter, reports>>

\* stream.message().await? yields Err(status): `?` returns it from the
\* handler at once.  A transport error can come at any read.
StreamError(s) ==
    /\ Running
    /\ session[s].pc = "reading"
    /\ session' = [session EXCEPT ![s].read = "error", ![s].pc = ReturnOn("error")]
    /\ UNCHANGED <<mainVars, genVars, counter, reporter, reports>>

(* --------------------------- stats reporter --------------------------- *)

\* a reporter that logs the sample itself
RateNoBaseline(current, last) == current

\* current_count - last_count on u64
RateOf(current, last) == current - last

\* a reporter that takes the count and resets the counter (swap for load)
ReporterSampleResets ==
    /\ Running
    /\ reporter.pc = "running"
    /\ Len(reports) < limits.samples
    /\ reports' = Append(reports, counter)
    /\ counter' = 0
    /\ UNCHANGED <<mainVars, genVars, reporter, session>>

\* One round of the reporter loop: the 1 s sleep has ended, load the
\* counter, log the difference to the previous sample, keep the sample.
ReporterSample ==
    /\ Running
    /\ reporter.pc = "running"
    /\ Len(reports) < limits.samples
    /\ LET current_count == counter
       IN  /\ reports' = Append(reports, RateOf(current_count, reporter.last_count))
           /\ reporter' = [reporter EXCEPT !.last_count = current_count]
    /\ UNCHANGED <<mainVars, genVars, counter, session>>

(* -------------------------------- main -------------------------------- *)

\* tokio::spawn of the task that builds and serves the gRPC server
MainSpawnServer ==
    /\ Running
    /\ mainPc = "start"
    /\ mainPc' = "server_spawned"
    /\ server' = "spawned"
    /\ UNCHANGED <<proc, ingestVars, genVars>>

\* Server::builder()...serve(addr).await.unwrap() inside the spawned task:
\* binding succeeds and the task serves, or serve returns Err and unwrap
\* panics.  The panic unwinds the task only; its JoinHandle was dropped.
ServerServe(bound) ==
    /\ Running
    /\ server = "spawned"
    /\ server' = IF bound THEN "serving" ELSE "panicked"
    /\ UNCHANGED <<proc, mainPc, ingestVars, genVars>>

\* tokio::spawn of the reporter, with last_count = 0
MainSpawnReporter ==
    /\ Running
    /\ mainPc = "server_spawned"
    /\ mainPc' = "reporter_spawned"
    /\ reporter' = [pc |-> "running", last_count |-> 0]
    /\ UNCHANGED <<proc, server, counter, session, reports, genVars>>

\* a main that drains the open stream sessions before it returns
MainCtrlCDrains(ok) ==
    /\ Running
    /\ mainPc = "wait_ctrl_c"
    /\ \A s \in Sessions : session[s].pc # "reading"
    /\ mainPc' = "returned"
    /\ proc' = IF ok THEN "exit_ok" ELSE "exit_err"
    /\ UNCHANGED <<server, ingestVars, genVars>>

\* tokio::signal::ctrl_c().await?: the interrupt arrives (or waiting for it
\* fails) and main returns; the process ends with every task and thread.
MainCtrlC(ok) ==
    /\ Running
    /\ mainPc = "wait_ctrl_c"
    /\ mainPc' = "returned"
    /\ proc' = IF ok THEN "exit_ok" ELSE "exit_err"
    /\ UNCHANGED <<server, ingestVars, genVars>>

\* start_input_generator(args.socket, args.rate): std::thread::spawn of the
\* generator thread; main goes on to wait for ctrl-c.
MainStartGenerator ==
    /\ Running
    /\ mainPc = "reporter_spawned"
    /\ mainPc' = "wait_ctrl_c"
    /\ gen' = [gen EXCEPT !.pc = "wait_socket"]
    /\ UNCHANGED <<proc, server, ingestVars, rate, now, endpoint, writes, obs, limits>>

(* ------------------------ start_input_generator ----------------------- *)

SleepPcs == {"poll_sleep", "connect_sleep", "fail_sleep", "align_sleep", "pace_sleep"}

\* flow_id_counter.wrapping_add(1)
WrappingAdd(x, y) == (x + y) % IdModulus

\* a generator that renders the failed record again after a reconnect
NextIdRetry(flow_id_counter) ==
    IF Len(writes.rendered) > 0 /\ ~writes.last.ok /\ writes.last.reconnect = "ok"
    THEN flow_id_counter
    ELSE WrappingAdd(flow_id_counter, 1)

\* a generator that keeps the record it dropped for the next iteration
NextIdKeptOnFailure(flow_id_counter) ==
    IF Len(writes.rendered) > 0 /\ ~writes.last.ok /\ writes.last.reconnect = "failed"
    THEN flow_id_counter
    ELSE WrappingAdd(flow_id_counter, 1)

\* a generator whose identifier does not wrap
NextIdNoWrap(flow_id_counter) == flow_id_counter + 1

\* the identifier the next iteration renders into its record
NextId(flow_id_counter) == WrappingAdd(flow_id_counter, 1)

\* stream.write_all(bytes) succeeds while the peer holds that connection open
WriteAll(stream) == stream # 0 /\ endpoint.open = stream

\* UnixStream::connect succeeds while the endpoint exists and accepts
ConnectOk == endpoint.up

\* a generator that keeps the broken stream after reconnecting
ReconnectDropped(old, s) == old

\* `stream = s` after a successful reconnect
Reconnected(old, s) == s

\* Duration::from_nanos(1_000_000_000 / rate) in ms
PaceSleepMs(r) == (NanosPerSec \div r) \div NanosPerMilli

\* the endpoint accepts one more connection; the peer holds it open
Accept == [endpoint EXCEPT !.conns = @ + 1, !.open = endpoint.conns + 1]

\* a generator that polls half as often
GenPollSlow ==
    /\ Running
    /\ gen.pc = "wait_socket"
    /\ IF endpoint.up
       THEN gen' = [gen EXCEPT !.pc = "connect"]
       ELSE gen' = [gen EXCEPT !.pc = "poll_sleep", !.wake = now + 2 * PollIntervalMs]
    /\ UNCHANGED <<mainVars, ingestVars, rate, now, endpoint, writes, obs, limits>>

\* a generator that goes on to connect without looking for the socket
GenPollNoCheck ==
    /\ Running
    /\ gen.pc = "wait_socket"
    /\ gen' = [gen EXCEPT !.pc = "connect"]
    /\ UNCHANGED <<mainVars, ingestVars, rate, now, endpoint, writes, obs, limits>>

\* Existence poll: Path::new(&socket_path).exists(), else sleep 500 ms
GenPoll ==
    /\ Running
    /\ gen.pc = "wait_socket"
    /\ IF endpoint.up
       THEN gen' = [gen EXCEPT !.pc = "connect"]
       ELSE gen' = [gen EXCEPT !.pc = "poll_sleep", !.wake = now + PollIntervalMs]
    /\ UNCHANGED <<mainVars, ingestVars, rate, now, endpoint, writes, obs, limits>>

GenWakePoll ==
    /\ Running
    /\ gen.pc = "poll_sleep"
    /\ now >= gen.wake
    /\ gen' = [gen EXCEPT !.pc = "wait_socket"]
    /\ UNCHANGED <<mainVars, ingestVars, rate, now, endpoint, writes, obs, limits>>

\* Connect loop: on Ok(s) leave the loop with the stream and enter the
\* emission loop (count = 0, flow_id_counter = 0, start = Instant::now());
\* on Err sleep 500 ms and try again.
GenConnect ==
    /\ Running
    /\ gen.pc = "connect"
    /\ IF ConnectOk
       THEN /\ endpoint' = Accept
            /\ gen' = [gen EXCEPT !.pc = "loop", !.stream = endpoint.conns + 1,
                                  !.count = 0, !.flow_id_counter = 0, !.start = now]
       ELSE /\ gen' = [gen EXCEPT !.pc = "connect_sleep", !.wake = now + ConnectRetryMs]
            /\ UNCHANGED endpoint
    /\ UNCHANGED <<mainVars, ingestVars, rate, now, writes, obs, limits>>

GenWakeConnect ==
    /\ Running
    /\ gen.pc = "connect_sleep"
    /\ now >= gen.wake
    /\ gen' = [gen EXCEPT !.pc = "connect"]
    /\ UNCHANGED <<mainVars, ingestVars, rate, now, endpoint, writes, obs, limits>>

\* What the log of writes becomes with one more write_all: the record's
\* identifier is appended to the identifiers rendered so far, the write is
\* kept as the last one (with the outcome of the reconnect it caused), and
\* a successful write is one more record delivered to the endpoint.
Logged(id, ok, reconnect) ==
    [rendered |-> Append(writes.rendered, id),
     last |-> [id |-> id, ok |-> ok, reconnect |-> reconnect],
     delivered |-> writes.delivered + (IF ok THEN 1 ELSE 0)]

\* One iteration up to the pacing: increment the identifier, render the
\* record, write_all; on Err reconnect at once, and if that fails too,
\* sleep 100 ms.
GenWrite ==
    /\ Running
    /\ gen.pc = "loop"
    /\ Len(writes.rendered) < limits.iters
    /\ LET id == NextId(gen.flow_id_counter)
       IN  /\ obs' = [obs EXCEPT !.firstWriteAt = IF @ = -1 THEN now ELSE @]
           /\ IF WriteAll(gen.stream)
              THEN /\ writes' = Logged(id, TRUE, "none")
                   /\ gen' = [gen EXCEPT !.flow_id_counter = id, !.pc = "pacing"]
                   /\ UNCHANGED endpoint
              ELSE IF ConnectOk
              THEN /\ writes' = Logged(id, FALSE, "ok")
                   /\ endpoint' = Accept
                   /\ gen' = [gen EXCEPT !.flow_id_counter = id, !.pc = "pacing",
                                         !.stream = Reconnected(@, endpoint.conns + 1)]
              ELSE /\ writes' = Logged(id, FALSE, "failed")
                   /\ gen' = [gen EXCEPT !.flow_id_counter = id, !.pc = "fail_sleep",
                                         !.wake = now + FailSleepMs]
                   /\ UNCHANGED endpoint
    /\ UNCHANGED <<mainVars, ingestVars, rate, now, limits>>

\* a generator thread that ends when a reconnect has failed
GenGiveUp ==
    /\ Running
    /\ gen.pc = "fail_sleep"
    /\ now >= gen.wake
    /\ gen' = [gen EXCEPT !.pc = "ended"]
    /\ UNCHANGED <<mainVars, ingestVars, rate, now, endpoint, writes, obs, limits>>

\* the 100 ms sleep after a failed reconnect has ended: on to the pacing
GenWakeFail ==
    /\ Running
    /\ gen.pc = "fail_sleep"
    /\ now >= gen.wake
    /\ gen' = [gen EXCEPT !.pc = "pacing"]
    /\ UNCHANGED <<mainVars, ingestVars, rate, now, endpoint, writes, obs, limits>>

\* a generator that counts its iterations whatever the rate
GenPacingCountsAlways ==
    /\ Running
    /\ gen.pc = "pacing"
    /\ gen' = [gen EXCEPT !.count = @ + 1, !.pc = "loop"]
    /\ UNCHANGED <<mainVars, ingestVars, rate, now, endpoint, writes, obs, limits>>

\* a generator whose pacing counts the records delivered, not the iterations
GenPacingCountsDelivered ==
    /\ Running
    /\ gen.pc = "pacing"
    /\ IF rate > 0
       THEN LET c == gen.count + (IF writes.last.ok THEN 1 ELSE 0)
                elapsed == now - gen.start
            IN  IF c >= rate
                THEN IF elapsed < WindowMs
                     THEN /\ gen' = [gen EXCEPT !.count = c, !.pc = "align_sleep",
                                                !.wake = now + (WindowMs - elapsed)]
                          /\ obs' = [obs EXCEPT !.alignSleeps = @ + 1]
                     ELSE /\ gen' = [gen EXCEPT !.count = 0, !.pc = "pace_sleep",
                                                !.wake = now + PaceSleepMs(rate)]
                          /\ UNCHANGED obs
                ELSE /\ gen' = [gen EXCEPT !.count = c, !.pc = "loop"]
                     /\ UNCHANGED obs
       ELSE /\ gen' = [gen EXCEPT !.pc = "loop"]
            /\ UNCHANGED obs
    /\ UNCHANGED <<mainVars, ingestVars, rate, now, endpoint, writes, limits>>

\* The pacing of one iteration: with rate > 0 count the iteration; when the
\* count has reached rate, sleep for the rest of the 1 s window if
\* start.elapsed() < 1 s, then set count = 0 and sleep 1 s / rate.
GenPacing ==
    /\ Running
    /\ gen.pc = "pacing"
    /\ IF rate > 0
       THEN LET c == gen.count + 1
                elapsed == now - gen.start
            IN  IF c >= rate
                THEN IF elapsed < WindowMs
                     THEN /\ gen' = [gen EXCEPT !.count = c, !.pc = "align_sleep",
                                                !.wake = now + (WindowMs - elapsed)]
                          /\ obs' = [obs EXCEPT !.alignSleeps = @ + 1]
                     ELSE /\ gen' = [gen EXCEPT !.count = 0, !.pc = "pace_sleep",
                                                !.wake = now + PaceSleepMs(rate)]
                          /\ UNCHANGED obs
                ELSE /\ gen' = [gen EXCEPT !.count = c, !.pc = "loop"]
                     /\ UNCHANGED obs
       ELSE /\ gen' = [gen EXCEPT !.pc = "loop"]
            /\ UNCHANGED obs
    /\ UNCHANGED <<mainVars, ingestVars, rate, now, endpoint, writes, limits>>

\* a generator that starts a new window at every pacing checkpoint
GenWakeAlignResetsStart ==
    /\ Running
    /\ gen.pc = "align_sleep"
    /\ now >= gen.wake
    /\ gen' = [gen EXCEPT !.count = 0, !.pc = "pace_sleep", !.start = now,
                          !.wake = now + PaceSleepMs(rate)]
    /\ UNCHANGED <<mainVars, ingestVars, rate, now, endpoint, writes, obs, limits>>

\* the window-alignment sleep has ended: count = 0, then sleep 1 s / rate
GenWakeAlign ==
    /\ Running
    /\ gen.pc = "align_sleep"
    /\ now >= gen.wake
    /\ gen' = [gen EXCEPT !.count = 0, !.pc = "pace_sleep",
                          !.wake = now + PaceSleepMs(rate)]
    /\ UNCHANGED <<mainVars, ingestVars, rate, now, endpoint, writes, obs, limits>>

GenWakePace ==
    /\ Running
    /\ gen.pc = "pace_sleep"
    /\ now >= gen.wake
    /\ gen' = [gen EXCEPT !.pc = "loop"]
    /\ UNCHANGED <<mainVars, ingestVars, rate, now, endpoint, writes, obs, limits>>

(* ------------------- the endpoint and the clock ----------------------- *)

\* The downstream collaborator creates the socket and accepts on it.  The
\* observer notes the instant from which the endpoint first existed.
EndpointCreate ==
    /\ Running
    /\ ~endpoint.up
    /\ endpoint' = [endpoint EXCEPT !.up = TRUE]
    /\ obs' = [obs EXCEPT !.createdAt = IF @ = -1 THEN now ELSE @]
    /\ UNCHANGED <<mainVars, ingestVars, rate, gen, now, writes, limits>>

\* the collaborator goes away: the socket is removed, its connections closed
EndpointRemove ==
    /\ Running
    /\ endpoint.up
    /\ obs.outages < MaxOutages
    /\ endpoint' = [endpoint EXCEPT !.up = FALSE, !.open = 0]
    /\ obs' = [obs EXCEPT !.outages = @ + 1]
    /\ UNCHANGED <<mainVars, ingestVars, rate, gen, now, writes, limits>>

\* the collaborator closes the generator's connection but keeps accepting
PeerClose ==
    /\ Running
    /\ endpoint.open # 0
    /\ obs.outages < MaxOutages
    /\ endpoint' = [endpoint EXCEPT !.open = 0]
    /\ obs' = [obs EXCEPT !.outages = @ + 1]
    /\ UNCHANGED <<mainVars, ingestVars, rate, gen, now, writes, limits>>

\* Time passes while the generator sleeps, no further than the latest
\* instant its sleep may end.
Tick ==
    /\ Running
    /\ gen.pc \in SleepPcs
    /\ now + Quantum <= limits.time
    /\ now + Quantum <= gen.wake + MaxJitter * Quantum
    /\ now' = now + Quantum
    /\ UNCHANGED <<mainVars, ingestVars, rate, gen, endpoint, writes, obs, limits>>

(* --------------------------- specifications --------------------------- *)

InitGenerator ==
    /\ rate \in Rates
    /\ gen \in {[pc |-> p, flow_id_counter |-> 0, count |-> 0, start |-> -1,
                 stream |-> 0, wake |-> 0] : p \in {"none", "wait_socket"}}
    /\ now = 0
    /\ endpoint \in {[up |-> u, open |-> 0, conns |-> 0] : u \in BOOLEAN}
    /\ writes = [rendered |-> << >>,
                 last |-> [id |-> 0, ok |-> TRUE, reconnect |-> "none"],
                 delivered |-> 0]
    /\ obs = [createdAt |-> IF endpoint.up THEN 0 ELSE -1, firstWriteAt |-> -1,
              outages |-> 0, alignSleeps |-> 0]

InitIngest ==
    /\ counter = 0
    /\ session = [s \in Sessions |-> IdleSession]
    /\ reporter = [pc |-> "none", last_count |-> 0]
    /\ reports = << >>

\* The whole process is followed over a short run of each unit: two
\* iterations of the emission loop, the first pacing window and one more
\* sleep, one sample, one stream session.
ScopeLimits ==
    [iters |-> 2, time |-> WindowMs + PollIntervalMs, samples |-> 1,
     sessions |-> 1, scripts |-> {<< >>, <<2>>}]

\* a single unit is followed further
UnitLimits ==
    [iters |-> MaxIter, time |-> MaxTime, samples |-> MaxSamples,
     sessions |-> NumSessions, scripts |-> Scripts]

\* the process as main is entered
Init ==
    /\ limits = ScopeLimits
    /\ proc = "running"
    /\ mainPc = "start"
    /\ server = "none"
    /\ InitIngest
    /\ InitGenerator
    /\ gen.pc = "none"
    /\ rate \in {0, MaxRate}

SessionStep ==
    \E s \in Sessions :
        \/ \E scr \in Scripts : StreamDataCall(s, scr)
        \/ StreamEvent(s)
        \/ StreamEnd(s)
        \/ StreamError(s)

GeneratorStep ==
    \/ GenPoll
    \/ GenWakePoll
    \/ GenConnect
    \/ GenWakeConnect
    \/ GenWrite
    \/ GenWakeFail
    \/ GenPacing
    \/ GenWakeAlign
    \/ GenWakePace

EnvStep ==
    \/ EndpointCreate
    \/ EndpointRemove
    \/ PeerClose
    \/ Tick

MainStep ==
    \/ MainSpawnServer
    \/ \E bound \in BOOLEAN : ServerServe(bound)
    \/ MainSpawnReporter
    \/ MainStartGenerator
    \/ \E ok \in BOOLEAN : MainCtrlC(ok)

Next ==
    \/ MainStep
    \/ SessionStep
    \/ ReporterSample
    \/ GeneratorStep
    \/ EnvStep

Spec == Init /\ [][Next]_vars

\* The state main leaves behind once it waits for ctrl-c, with the server
\* bound: every task and the generator thread are started.
Started ==
    /\ proc = "running"
    /\ mainPc = "wait_ctrl_c"
    /\ server = "serving"
    /\ counter = 0
    /\ session = [s \in Sessions |-> IdleSession]
    /\ reporter = [pc |-> "running", last_count |-> 0]
    /\ reports = << >>
    /\ InitGenerator
    /\ gen.pc = "wait_socket"

InitStarted == limits = UnitLimits /\ Started

\* the ingest service and the reporter, the generator still at its first poll
NextIngest == SessionStep \/ ReporterSample

InitIngestOnly == InitStarted /\ rate = 0 /\ ~endpoint.up

SpecIngest == InitIngestOnly /\ [][NextIngest]_vars

\* The generator from its start to its first write, with its endpoint and
\* the clock; no stream session is open.
NextStartup ==
    \/ GenPoll
    \/ GenWakePoll
    \/ GenConnect
    \/ GenWakeConnect
    \/ GenWrite
    \/ EndpointCreate
    \/ EndpointRemove
    \/ PeerClose
    \/ Tick

InitStartup ==
    /\ limits = [iters |-> 1, time |-> MaxTime, samples |-> 0, sessions |-> 0,
                 scripts |-> {}]
    /\ Started

SpecStartup == InitStartup /\ [][NextStartup]_vars

\* The state in which the generator enters its emission loop when the
\* endpoint was there from the start: the first poll and the first connect
\* succeeded at time 0.
Connected ==
    /\ proc = "running"
    /\ mainPc = "wait_ctrl_c"
    /\ server = "serving"
    /\ counter = 0
    /\ session = [s \in Sessions |-> IdleSession]
    /\ reporter = [pc |-> "running", last_count |-> 0]
    /\ reports = << >>
    /\ rate \in Rates
    /\ gen = [pc |-> "loop", flow_id_counter |-> 0, count |-> 0, start |-> 0,
              stream |-> 1, wake |-> 0]
    /\ now = 0
    /\ endpoint = [up |-> TRUE, open |-> 1, conns |-> 1]
    /\ writes = [rendered |-> << >>,
                 last |-> [id |-> 0, ok |-> TRUE, reconnect |-> "none"],
                 delivered |-> 0]
    /\ obs = [createdAt |-> 0, firstWriteAt |-> -1, outages |-> 0, alignSleeps |-> 0]

\* the emission loop, the endpoint and the clock
NextEmission ==
    \/ GenWrite
    \/ GenWakeFail
    \/ GenPacing
    \/ GenWakeAlign
    \/ GenWakePace
    \/ EndpointCreate
    \/ EndpointRemove
    \/ PeerClose
    \/ Tick

InitEmission == limits = UnitLimits /\ Connected

SpecEmission == InitEmission /\ [][NextEmission]_vars

\* the same, for the runs checked for progress: five iterations, the first
\* pacing window and one more sleep
InitEmissionFair ==
    /\ limits = [iters |-> 5, time |-> WindowMs + PollIntervalMs, samples |-> 0,
                 sessions |-> 0, scripts |-> {}]
    /\ Connected

\* The generator is an OS thread of its own: it is scheduled whenever it can
\* run, and time passes while it sleeps.
SpecEmissionFair ==
    /\ InitEmissionFair
    /\ [][NextEmission]_vars
    /\ WF_vars(GeneratorStep)
    /\ WF_vars(Tick)

\* The three units side by side: two stream sessions of one event each and
\* one sample of the reporter, next to the generator from its first poll
\* over two iterations, the first pacing window and one more sleep.  The
\* endpoint is there when the process starts and may go away at any moment,
\* before the first poll too.
ConcurrentLimits ==
    [iters |-> 2, time |-> WindowMs + PollIntervalMs, samples |-> 1,
     sessions |-> 2, scripts |-> {<<2>>}]

InitConcurrent ==
    /\ limits = ConcurrentLimits
    /\ Started
    /\ rate = MaxRate
    /\ endpoint.up

NextConcurrent == SessionStep \/ ReporterSample \/ GeneratorStep \/ EnvStep

SpecConcurrent == InitConcurrent /\ [][NextConcurrent]_vars

(* ------------------------------- claims ------------------------------- *)

\* what session s has added so far: the metrics of the events it has read
TallyOf(s) == SumSeq(Prefix(session[s].inbound, session[s].pos))

RECURSIVE SumTallies(_)
SumTallies(n) == IF n = 0 THEN 0 ELSE TallyOf(n) + SumTallies(n - 1)

\* the metrics of every event of the streams of sessions 1..n
RECURSIVE SumInbound(_)
SumInbound(n) == IF n = 0 THEN 0 ELSE SumSeq(session[n].inbound) + SumInbound(n - 1)

\* C1: no update is lost.  In every state the counter is the sum, over all
\* sessions, of len(event.metrics) of the events each has read; so once every
\* session has ended cleanly the counter is the sum over every event of every
\* session, whatever the interleaving.
NoLostUpdate ==
    /\ counter = SumTallies(NumSessions)
    /\ (\A s \in Sessions : session[s].pc \in {"idle", "ok"})
            => counter = SumInbound(NumSessions)

\* C1 witness: two sessions with metric counts [1,2,3] and [4,5], both
\* complete, leave the counter at 15.
TwoSessionsFifteen ==
    /\ session[1].inbound = <<1, 2, 3>> /\ session[1].pc = "ok"
    /\ session[2].inbound = <<4, 5>> /\ session[2].pc = "ok"
    /\ counter = 15

\* C2: a session whose stream ended cleanly has returned Ok, and no step
\* of a session whose client sends no event changes the counter.
CleanEndAcknowledged ==
    /\ [](\A s \in Sessions : session[s].read = "eof" => session[s].pc = "ok")
    /\ [][\A s \in Sessions :
            (session'[s] # session[s] /\ session'[s].inbound = << >>)
                => counter' = counter]_vars

\* C2 witness: a session of zero events has ended with Ok while another
\* session has added to the counter.
EmptySessionAcked ==
    \E s \in Sessions :
        /\ session[s].inbound = << >>
        /\ session[s].pc = "ok"
        /\ session[s].pos = 0
        /\ counter > 0

\* the endpoint has accepted every connection and every write so far
AlwaysAccepted == obs.outages = 0

\* C3: with rate R > 0 and an endpoint that accepts everything, T >= 2
\* whole seconds into the emission loop the number of records delivered is
\* within R of R*T; with rate 2, after exactly 3 seconds it is in 5..7.
RateLimited ==
    (rate > 0 /\ gen.start >= 0 /\ AlwaysAccepted) =>
        LET T == now - gen.start
            secs == T \div 1000
        IN  /\ (T >= 2000 /\ T % 1000 = 0) =>
                    /\ writes.delivered >= rate * secs - rate
                    /\ writes.delivered <= rate * secs + rate
            /\ (rate = 2 /\ T = 3000) => writes.delivered \in 5..7

\* C4: a failure to bind the listening address is fatal.  Once the server
\* task has failed to bind, the reporter takes no sample, the generator
\* writes nothing and the process does not end with success.
BindFailureIsFatal ==
    [][server = "panicked" =>
          /\ reports' = reports
          /\ writes' = writes
          /\ proc' # "exit_ok"]_vars

\* a step that is one more write_all of the emission loop
IsWrite == Len(writes'.rendered) = Len(writes.rendered) + 1

\* the last write failed and the reconnect that followed it succeeded
AfterReconnect ==
    /\ Len(writes.rendered) > 0
    /\ ~writes.last.ok
    /\ writes.last.reconnect = "ok"

\* C5 as stated: after a failed write and a successful reconnect the next
\* iteration writes the same record (same identifier) again.
RetriesSameRecord ==
    [][(IsWrite /\ AfterReconnect) => writes'.last.id = writes.last.id]_vars

\* C5 amended: after a failed write and a successful reconnect the next
\* iteration writes a new record, with the next identifier, on the new
\* connection; the record whose write failed is not written again.
NextRecordOnNewConnection ==
    [][(IsWrite /\ AfterReconnect) =>
          /\ writes'.last.id = (writes.last.id + 1) % IdModulus
          /\ writes'.last.id # writes.last.id
          /\ gen.stream = endpoint.conns
          /\ writes'.last.ok = (endpoint.open = gen.stream)]_vars

\* C5 witness: the first write failed, the reconnect gave a second
\* connection, and the second iteration delivered record 2 on it.
FreshRecordAfterReconnect ==
    /\ obs.outages = 1
    /\ endpoint.conns = 2
    /\ gen.stream = 2
    /\ writes.rendered = <<1, 2>>
    /\ writes.delivered = 1
    /\ writes.last = [id |-> 2, ok |-> TRUE, reconnect |-> "none"]

\* the generator is in its emission loop
InLoop == gen.pc \in {"loop", "pacing", "fail_sleep", "align_sleep", "pace_sleep"}

\* the clock of the run has reached its end
TimeCapped == now + Quantum > limits.time

\* the endpoint has been away, is back, and stays from now on
BackForGood == endpoint.up /\ obs.outages = MaxOutages

\* the last write succeeded, on a connection the endpoint holds open
WritingAgain == writes.last.ok /\ WriteAll(gen.stream) /\ writes.delivered > 0

\* C6: once in its emission loop the generator stays in it, and while the
\* run goes on it always has a next step (no failed write and no failed
\* reconnect ends it); and if the endpoint has gone away and is back for
\* good, the generator gets a write through again.
NeverGivesUp ==
    /\ [][InLoop => InLoop']_vars
    /\ []((InLoop /\ Len(writes.rendered) < limits.iters /\ ~TimeCapped)
            => ENABLED (GeneratorStep \/ Tick))
    /\ (InLoop /\ BackForGood /\ Len(writes.rendered) + 2 <= limits.iters)
            ~> (WritingAgain \/ TimeCapped)

\* C6 witness: writes failed and reconnects failed while the endpoint was
\* away, and after its return a write got through on a new connection.
ResumedAfterOutage ==
    /\ InLoop
    /\ BackForGood
    /\ WritingAgain
    /\ endpoint.conns = 2
    /\ writes.delivered + 2 <= Len(writes.rendered)

\* C7: the identifiers rendered are 1, 2, 3, ... one per iteration whether
\* or not the write failed, so before the counter overflows they are
\* distinct and strictly increasing; at the overflow the counter wraps to 0
\* and the loop goes on.
IdentifiersIncrease ==
    LET r == writes.rendered
    IN  /\ \A i \in DOMAIN r : r[i] = i % IdModulus
        /\ \A i, j \in DOMAIN r : (i < j /\ j < IdModulus) => r[i] < r[j]
        /\ gen.flow_id_counter = Len(r) % IdModulus

\* C7 witness: the loop has gone past the overflow, with a failed write
\* among its iterations.
IdentifiersWrapped ==
    /\ Len(writes.rendered) > IdModulus
    /\ writes.rendered[IdModulus] = 0
    /\ writes.rendered[IdModulus + 1] = 1
    /\ writes.delivered < Len(writes.rendered)

\* C8 as stated: an endpoint created at time t and accepting from then on
\* gets the generator's first write no later than t + 500 ms.
FirstWriteWithinPollInterval ==
    (obs.firstWriteAt >= 0 /\ AlwaysAccepted) =>
        /\ obs.createdAt >= 0
        /\ obs.firstWriteAt >= obs.createdAt
        /\ obs.firstWriteAt <= obs.createdAt + PollIntervalMs

\* C8 amended: the first write comes no later than t + 500 ms plus the time
\* by which the poll's sleep overran (at most MaxJitter quanta), and never
\* before the endpoint exists.
FirstWriteWithinPollAndOverrun ==
    /\ obs.createdAt = -1 => (obs.firstWriteAt = -1 /\ writes.rendered = << >>)
    /\ (obs.firstWriteAt >= 0 /\ AlwaysAccepted) =>
            /\ obs.createdAt >= 0
            /\ obs.firstWriteAt >= obs.createdAt
            /\ obs.firstWriteAt <= obs.createdAt + PollIntervalMs + MaxJitter * Quantum

\* C8 witness: the endpoint appeared 2 s after the start, right after a
\* poll, and the first write came a polling interval and an overrun later.
FirstWriteAfterLateCreation ==
    /\ obs.createdAt = 2000
    /\ obs.firstWriteAt = obs.createdAt + PollIntervalMs + MaxJitter * Quantum
    /\ AlwaysAccepted

\* C9: the counter never decreases (and is never negative), whatever
\* step a session, the reporter, the generator or main takes.
CounterOnlyIncreases ==
    /\ [](counter >= 0)
    /\ [][counter' >= counter]_vars

\* C9 witness: the counter has grown while the reporter has sampled and
\* the generator has written.
CounterGrewAmongOthers ==
    /\ counter > 0
    /\ Len(reports) > 0
    /\ Len(writes.rendered) > 0

\* C10: every sample logs counter - last_count and keeps the counter as
\* last_count, from a baseline of 0; so no logged rate is negative and the
\* logged rates add up to the last sample.
ReporterDeltas ==
    /\ [](/\ reports = << >> => reporter.last_count = 0
          /\ \A i \in DOMAIN reports : reports[i] >= 0
          /\ SumSeq(reports) = reporter.last_count)
    /\ [][Len(reports') = Len(reports) + 1 =>
            /\ reports'[Len(reports')] = counter - reporter.last_count
            /\ reporter'.last_count = counter]_vars

\* C10 witness: two samples, each with a positive rate.
TwoPositiveSamples ==
    /\ Len(reports) = 2
    /\ reports[1] > 0
    /\ reports[2] > 0
    /\ reporter.last_count = counter

\* C11: a read that fails with a transport error ends the session with that
\* error: the call has returned Err and not Ok, and from then on the session
\* takes no step at all (it reads no further event and does not retry), so
\* it adds nothing more to the counter.
ReadErrorEndsSession ==
    /\ [](\A s \in Sessions : session[s].read = "error" => session[s].pc = "err")
    /\ [][\A s \in Sessions :
            session[s].pc = "err" => session'[s] = session[s]]_vars
    /\ [][\A s \in Sessions :
            (session[s].pc = "reading" /\ session'[s].pc = "err")
                => /\ session'[s].read = "error"
                   /\ session'[s].pos = session[s].pos
                   /\ counter' = counter]_vars

\* C11 witness: a session failed after its first event, with two events of
\* its stream never read.
FailedWithEventsUnread ==
    \E s \in Sessions :
        /\ session[s].inbound = <<1, 2, 3>>
        /\ session[s].pc = "err"
        /\ session[s].pos = 1

\* C12: the process leaves "running" only by main's return from
\* ctrl_c().await (with success when the interrupt arrived); that return is
\* possible as soon as main waits for the signal, whatever the sessions, the
\* reporter and the generator are doing; and after the exit nothing changes.
ExitOnInterruptOnly ==
    /\ []((Running /\ mainPc = "wait_ctrl_c") => ENABLED MainCtrlC(TRUE))
    /\ [](proc # "running" => mainPc = "returned")
    /\ [][proc' # proc => (mainPc = "wait_ctrl_c" /\ mainPc' = "returned")]_vars
    /\ [][Running]_vars

\* C12 witness: the process has exited on the interrupt while a session was
\* waiting for its next event and the generator was inside a pacing sleep.
ExitedWhileOthersBusy ==
    /\ proc = "exit_ok"
    /\ \E s \in Sessions : session[s].pc = "reading" /\ session[s].pos = 1
    /\ gen.pc = "pace_sleep"
    /\ now < gen.wake
    /\ Len(reports) < limits.samples

\* the generator is blocked: inside a sleep that has not ended
GeneratorBlocked == gen.pc \in SleepPcs /\ now < gen.wake

\* C13: the units do not block one another.  Whatever the generator is
\* doing (sleeping between polls or connect attempts, in a pacing or failure
\* sleep, or running), an idle session can be opened, a reading session can
\* take its next event, its end of stream or its error, and the reporter
\* can take its sample; and whatever the sessions are doing (one of them
\* waiting for its next event or not), the generator and its clock can take
\* their next step.
UnitsIndependent ==
    Running =>
        /\ \A s \in Sessions :
            /\ (s <= limits.sessions /\ session[s].pc = "idle")
                    => \A scr \in limits.scripts : ENABLED StreamDataCall(s, scr)
            /\ (session[s].pc = "reading" /\ session[s].pos < Len(session[s].inbound))
                    => ENABLED StreamEvent(s)
            /\ (session[s].pc = "reading" /\ session[s].pos = Len(session[s].inbound))
                    => ENABLED StreamEnd(s)
            /\ session[s].pc = "reading" => ENABLED StreamError(s)
        /\ Len(reports) < limits.samples => ENABLED ReporterSample
        /\ gen.pc \in {"wait_socket", "connect", "pacing"} => ENABLED GeneratorStep
        /\ (gen.pc = "loop" /\ Len(writes.rendered) < limits.iters) => ENABLED GenWrite
        /\ (gen.pc \in SleepPcs /\ now >= gen.wake) => ENABLED GeneratorStep
        /\ (GeneratorBlocked /\ now + Quantum <= limits.time) => ENABLED Tick

\* C13 witness: no poll has found the endpoint and the generator sleeps
\* between two polls, a second after the start; meanwhile one session has
\* added its event and waits for the next, the other has come and gone, and
\* the reporter has logged a sample of both.
IngestWhileGeneratorWaits ==
    /\ GeneratorBlocked
    /\ gen.pc = "poll_sleep"
    /\ ~endpoint.up
    /\ gen.stream = 0
    /\ now >= WindowMs
    /\ session[1].pc = "reading" /\ session[1].pos = 1
    /\ session[2].pc = "ok"
    /\ counter = 4
    /\ reports = <<4>>

\* the generator is in its existence poll, in its connect loop
InPoll == gen.pc \in {"wait_socket", "poll_sleep"}
InConnect == gen.pc \in {"connect", "connect_sleep"}

\* C14: the generator's phases come in order.  The connect loop is entered
\* only from a poll that found the endpoint, and no connection is made
\* during the poll phase; the emission loop is entered only from a connect
\* attempt that succeeded, and nothing is rendered or written before.
\* Neither loop gives up: while the endpoint is absent the poll phase is not
\* left, while connecting fails the connect loop is not left, and in both
\* the generator always has a next step (a poll, an attempt, or time
\* passing in its sleep) until the run's clock ends.
PhasesInOrder ==
    /\ []((InPoll \/ InConnect) =>
            (writes.rendered = << >> /\ gen.stream = 0 /\ endpoint.conns = 0))
    /\ [][(InPoll /\ ~InPoll') => (gen.pc = "wait_socket" /\ endpoint.up /\ InConnect')]_vars
    /\ [][(InPoll /\ ~endpoint.up) => InPoll']_vars
    /\ [][(InConnect /\ ~InConnect') =>
            /\ gen.pc = "connect"
            /\ ConnectOk
            /\ InLoop'
            /\ gen'.stream = endpoint'.open
            /\ endpoint'.conns = 1]_vars
    /\ [][(InConnect /\ ~ConnectOk) => InConnect']_vars
    /\ []((InPoll \/ InConnect) => (TimeCapped \/ ENABLED (GeneratorStep \/ Tick)))

\* C14 witness: the endpoint was absent for the first second, a poll then
\* found it, it went away before the connect, and the generator now sleeps
\* between two connect attempts, having written nothing.
RetryingConnect ==
    /\ gen.pc = "connect_sleep"
    /\ ~endpoint.up
    /\ obs.createdAt >= WindowMs
    /\ now >= obs.createdAt + ConnectRetryMs
    /\ writes.rendered = << >>

\* the last write failed and so did the reconnect that followed it
AfterFailedReconnect ==
    /\ Len(writes.rendered) > 0
    /\ ~writes.last.ok
    /\ writes.last.reconnect = "failed"

\* what C15 says of a failed write whose reconnect failed: nothing is
\* delivered, the generator sleeps (at least) 100 ms, and the next write is
\* of the next identifier
DroppedAndSlept ==
    /\ [][(IsWrite /\ ~writes'.last.ok) => writes'.delivered = writes.delivered]_vars
    /\ [][(IsWrite /\ writes'.last.reconnect = "failed") =>
            (gen'.pc = "fail_sleep" /\ gen'.wake = now + FailSleepMs)]_vars
    /\ [][(gen.pc = "fail_sleep" /\ gen'.pc # "fail_sleep") => now >= gen.wake]_vars
    /\ [][(IsWrite /\ AfterFailedReconnect) =>
            writes'.last.id = WrappingAdd(writes.last.id, 1)]_vars

\* C15 as stated: in every run each identifier is written at most once: the
\* identifier of every write attempt is greater than the identifier of
\* every earlier attempt (so the identifiers delivered increase strictly).
AtMostOnceInEveryRun ==
    /\ [][IsWrite => \A i \in DOMAIN writes.rendered :
                        writes.rendered[i] < writes'.last.id]_vars
    /\ DroppedAndSlept

\* C15 amended: the same up to the overflow of the identifier; at the
\* overflow the identifier wraps and the identifiers of the first round are
\* written again.
AtMostOnceBeforeOverflow ==
    /\ [][(IsWrite /\ Len(writes'.rendered) < IdModulus) =>
            \A i \in DOMAIN writes.rendered : writes.rendered[i] < writes'.last.id]_vars
    /\ [][(IsWrite /\ Len(writes'.rendered) >= IdModulus) =>
            writes'.last.id = Len(writes'.rendered) % IdModulus]_vars
    /\ [](writes.delivered <= Len(writes.rendered))
    /\ DroppedAndSlept

\* C15 witness: record 1 was delivered, record 2 was dropped (its write
\* failed and the reconnect failed), after the 100 ms sleep record 3 failed
\* and the reconnect succeeded, and record 4 was delivered.
DroppedThenNextIdentifier ==
    /\ writes.rendered = <<1, 2, 3, 4>>
    /\ writes.delivered = 2
    /\ writes.last = [id |-> 4, ok |-> TRUE, reconnect |-> "none"]
    /\ endpoint.conns = 2
    /\ now >= gen.start + FailSleepMs

\* C16: with rate = 0 the pacing counter stays 0 and the loop never enters
\* a pacing sleep (neither the window alignment nor the 1 s / rate sleep);
\* time passes, if at all, only in the 100 ms sleep after a failed write
\* whose reconnect failed, so without such a failure it does not pass.
UnlimitedIsUnpaced ==
    /\ [](rate = 0 =>
            /\ gen.count = 0
            /\ gen.pc \notin {"align_sleep", "pace_sleep"}
            /\ obs.alignSleeps = 0
            /\ (gen.pc = "fail_sleep" => AfterFailedReconnect)
            /\ (obs.outages = 0 => now = gen.start))
    /\ [][(rate = 0 /\ now' # now) => gen.pc = "fail_sleep"]_vars
    /\ [][(rate = 0 /\ gen.pc = "pacing") => (gen'.pc \in {"pacing", "loop"})]_vars

\* C16 witness: with rate 0 every iteration the run follows has written
\* its record, and no time has passed since the loop started.
AllWrittenAtOnce ==
    /\ rate = 0
    /\ Len(writes.rendered) = limits.iters
    /\ writes.delivered = limits.iters
    /\ gen.pc = "loop"
    /\ now = gen.start

\* session s takes one event off its stream in this step
ReadsEvent(s) ==
    /\ session[s].pc = "reading"
    /\ session'[s].pc = "reading"
    /\ session'[s].pos = session[s].pos + 1

\* C17: the counter changes only in a step in which one session reads an
\* event, and then by that event's number of metrics, every such step
\* adding exactly that; a step that changes the reporter, its log, the
\* generator, the endpoint, the clock or main leaves the counter alone; and
\* the generator's stream handle changes only in a connect or a write
\* (reconnect) step of the generator, which changes no session and nothing
\* of the reporter.
FrameOfCounterAndStream ==
    /\ [][counter' # counter =>
            /\ \E s \in Sessions :
                /\ ReadsEvent(s)
                /\ \A o \in Sessions \ {s} : session'[o] = session[o]
            /\ UNCHANGED <<mainVars, genVars, reporter, reports>>]_vars
    /\ [][\A s \in Sessions :
            ReadsEvent(s) => counter' = counter + session[s].inbound[session'[s].pos]]_vars
    /\ [][(<<mainVars, genVars, reporter, reports>>' # <<mainVars, genVars, reporter, reports>>)
            => counter' = counter]_vars
    /\ [][gen'.stream # gen.stream =>
            /\ gen.pc \in {"connect", "loop"}
            /\ gen'.stream = endpoint'.conns
            /\ endpoint'.conns = endpoint.conns + 1
            /\ UNCHANGED <<mainVars, ingestVars>>]_vars

\* C17 witness: a session has added its event's two metrics, the reporter
\* has logged them, and the generator has replaced its stream handle by a
\* reconnect; main waits for ctrl-c.
EveryUnitHasActed ==
    /\ mainPc = "wait_ctrl_c"
    /\ counter = 2
    /\ reports = <<2>>
    /\ gen.stream = 2
    /\ endpoint.conns = 2
    /\ Len(writes.rendered) > 0

\* C18: the window's start instant never changes once the loop runs; the
\* window-alignment sleep is entered at most once, with rate > 0, at a
\* checkpoint less than 1 s after the start, and lasts to the end of that
\* second, after which the 1 s / rate sleep follows; every checkpoint from
\* 1 s after the start on goes straight to the 1 s / rate sleep.
AlignsAtMostOnce ==
    /\ [][gen'.start = gen.start]_vars
    /\ [](obs.alignSleeps <= 1)
    /\ [](obs.alignSleeps = 1 => (gen.pc = "align_sleep" \/ now - gen.start >= WindowMs))
    /\ [][(gen'.pc = "align_sleep" /\ gen.pc # "align_sleep") =>
            /\ rate > 0
            /\ gen.pc = "pacing"
            /\ gen.count + 1 >= rate
            /\ now - gen.start < WindowMs
            /\ gen'.wake = gen.start + WindowMs
            /\ obs.alignSleeps = 0
            /\ obs'.alignSleeps = 1]_vars
    /\ [][(gen.pc = "align_sleep" /\ gen'.pc # "align_sleep") =>
            /\ now >= gen.start + WindowMs
            /\ gen'.pc = "pace_sleep"
            /\ gen'.wake = now + PaceSleepMs(rate)]_vars
    /\ [][(gen.pc = "pacing" /\ gen'.pc = "pace_sleep") =>
            /\ now - gen.start >= WindowMs
            /\ gen'.wake = now + PaceSleepMs(rate)
            /\ obs'.alignSleeps = obs.alignSleeps]_vars

\* C18 witness: with rate 2 the first checkpoint slept to the end of the
\* first second, and the second and third checkpoints, after iterations 4
\* and 6, went straight to the 1 s / rate sleep.
LaterCheckpointsOnlyPace ==
    /\ rate = 2
    /\ obs.alignSleeps = 1
    /\ Len(writes.rendered) = 6
    /\ gen.pc = "pace_sleep"
    /\ gen.wake = now + PaceSleepMs(rate)
    /\ now - gen.start >= 2 * WindowMs

\* the number of iterations of the emission loop begun so far
Iterations == Len(writes.rendered)

\* C19: with rate R > 0 the pacing counter is the number of iterations
\* since the last checkpoint, whatever became of their writes: at the top
\* of the loop it is (iterations so far) mod R, in 0..R-1; the pacing of an
\* iteration that is not the R-th adds 1 and goes back to the top; the
\* pacing of every R-th iteration, and of no other, is a checkpoint (the
\* sleeps, with the counter back at 0 for the 1 s / R sleep).
PacingCountsIterations ==
    /\ []((rate > 0 /\ gen.pc = "loop") =>
            (gen.count \in 0..(rate - 1) /\ gen.count = Iterations % rate))
    /\ []((rate > 0 /\ gen.pc \in {"pacing", "fail_sleep"}) =>
            gen.count = (Iterations - 1) % rate)
    /\ []((rate > 0 /\ gen.pc = "pace_sleep") =>
            (gen.count = 0 /\ Iterations % rate = 0))
    /\ [][(rate > 0 /\ gen.pc = "pacing" /\ gen'.pc # "pacing") =>
            IF Iterations % rate = 0
            THEN gen'.pc \in {"align_sleep", "pace_sleep"}
            ELSE gen'.pc = "loop" /\ gen'.count = gen.count + 1]_vars

\* C19 witness: with rate 2, of four iterations one write was delivered,
\* one failed with a failed reconnect, one failed with a successful
\* reconnect and one was delivered on the new connection; the pacing of the
\* fourth is the second checkpoint.
CheckpointAfterFailures ==
    /\ rate = 2
    /\ Iterations = 4
    /\ writes.delivered = 2
    /\ endpoint.conns = 2
    /\ gen.pc = "pace_sleep"
    /\ gen.count = 0

\* C20: the step in which a session fails on a read changes neither the
\* counter nor any other session, so what the session added for the k
\* events it had read stays in the counter, next to what the other sessions
\* have added; and another session that has events left can still read its
\* next one.
PartialTallyKept ==
    /\ [][\A s \in Sessions :
            (session[s].pc = "reading" /\ session'[s].pc = "err") =>
                /\ counter' = counter
                /\ session'[s].pos = session[s].pos
                /\ \A o \in Sessions \ {s} : session'[o] = session[o]]_vars
    /\ [](\A s \in Sessions :
            session[s].pc = "err" =>
                /\ counter >= TallyOf(s)
                /\ counter = SumTallies(NumSessions)
                /\ \A o \in Sessions \ {s} :
                    (session[o].pc = "reading" /\ session[o].pos < Len(session[o].inbound))
                        => ENABLED StreamEvent(o))

\* C20 witness: session 1 failed after two of its three events (1 + 2
\* metrics), session 2 read both of its events (4 + 5) and ended cleanly:
\* the counter is 12.
FailedSessionTallyStays ==
    /\ session[1].inbound = <<1, 2, 3>> /\ session[1].pc = "err" /\ session[1].pos = 2
    /\ session[2].inbound = <<4, 5>> /\ session[2].pc = "ok"
    /\ counter = 12

====
